---- MODULE Spec2Model ----
(***************************************************************************)
(* Model of the authenticated HTTP client of finora-ui                     *)
(* (src/src/services/api.ts): every API function sends its request with    *)
(* createRequestWithRetry, hands the response to handleResponse together   *)
(* with a closure that re-sends the request, and handleResponse refreshes  *)
(* the session through refreshToken when the status is 403.                *)
(*                                                                         *)
(* Each API call is a logical task suspended at its awaits; one action of  *)
(* the model is the code a task runs between two awaits.                   *)
(***************************************************************************)
EXTENDS Integers, Sequences, FiniteSets, TLC

\* ------------------------------------------------------------------ bounds
\* number of API calls the application issues
NumCalls == 2

Calls == 1..NumCalls

\* --------------------------------------------------------------- constants
\* refreshPromise = null
Null == 0

\* an Error built by `new Error(message)` has no status property
NoStatus == 0

\* status of the response that makes handleResponse refresh the session
Forbidden == 403

\* ---------------------------------------------------------------- responses
\* bodies a server answers with: empty, an object without message, an object
\* with a message, an object with an empty message, and text that is not JSON
BodyEmpty == ""
BodyObject == "{}"
BodyMessage == "{\"message\":\"boom\"}"
BodyEmptyMessage == "{\"message\":\"\"}"
BodyText == "oops"

Bodies == {BodyEmpty, BodyObject, BodyMessage, BodyEmptyMessage, BodyText}

Statuses == {200, Forbidden, 500}

\* fetch rejected: the request got no HTTP response
TransportFailure == [net |-> FALSE, status |-> 0, body |-> BodyEmpty]

\* no response received yet
NoResponse == [net |-> FALSE, status |-> 0, body |-> "-"]

\* the bodies the calls of the model are answered with
CallBodies == {BodyEmpty, BodyObject, BodyMessage, BodyText}

HttpResponses == [net : {TRUE}, status : Statuses, body : CallBodies]

Responses == HttpResponses \cup {TransportFailure}

\* what POST /auth/refresh can answer; its body is never read
RefreshResponses ==
    [net : {TRUE}, status : {200, 401}, body : {BodyEmpty}] \cup {TransportFailure}

\* Response.ok
Ok(resp) == resp.status >= 200 /\ resp.status <= 299

\* JSON.parse over the bodies above: parsed tells whether it returns, message
\* is the value of the `message` property ("" when absent)
JSONParse(text) ==
    CASE text = BodyObject       -> [parsed |-> TRUE,  message |-> ""]
      [] text = BodyMessage      -> [parsed |-> TRUE,  message |-> "boom"]
      [] text = BodyEmptyMessage -> [parsed |-> TRUE,  message |-> ""]
      [] OTHER                   -> [parsed |-> FALSE, message |-> ""]

\* a || b on strings
OrElse(a, b) == IF a # "" THEN a ELSE b

\* ------------------------------------------------------------------ outcomes
NoResult == [kind |-> "none", message |-> "", status |-> NoStatus, data |-> ""]

Success(data) == [kind |-> "ok", message |-> "", status |-> NoStatus, data |-> data]

\* throw new Error(message)
Err(message) == [kind |-> "error", message |-> message, status |-> NoStatus, data |-> ""]

SessionExpired == Err("Session expirée, redirection vers la connexion")

InvalidResponse == Err("Réponse invalide du serveur")

\* the rejection of fetch itself
FetchFailed == Err("Failed to fetch")

\* `Erreur ${response.status}`
DefaultMessage(resp) == "Erreur " \o ToString(resp.status)

ErrorMessageRawTextFirst(resp) == OrElse(resp.body, DefaultMessage(resp))

\* the message of the error thrown for a response that is not ok
ErrorMessage(resp) ==
    LET errorJson == JSONParse(resp.body)
    IN  IF errorJson.parsed
        THEN OrElse(errorJson.message, DefaultMessage(resp))
        ELSE OrElse(resp.body, DefaultMessage(resp))

PlainOutcomeNoEmptyCheck(resp) ==
    IF ~Ok(resp) THEN Err(ErrorMessage(resp))
    ELSE IF JSONParse(resp.body).parsed THEN Success(resp.body)
    ELSE InvalidResponse

PlainOutcomeNoParseCatch(resp) ==
    IF ~Ok(resp) THEN Err(ErrorMessage(resp))
    ELSE IF resp.body = "" THEN Success(BodyObject)
    ELSE IF JSONParse(resp.body).parsed THEN Success(resp.body)
    ELSE Err("Unexpected token")

\* handleResponse past the 403 branch
PlainOutcome(resp) ==
    IF ~Ok(resp) THEN Err(ErrorMessage(resp))
    ELSE IF resp.body = "" THEN Success(BodyObject)
    ELSE IF JSONParse(resp.body).parsed THEN Success(resp.body)
    ELSE InvalidResponse

\* --------------------------------------------------------------------- state
VARIABLES
    isRefreshing,     \* module variable isRefreshing
    refreshPromise,   \* module variable refreshPromise: Null or a promise
    promises,         \* the promises refreshToken created, by creation order
    refreshInFlight,  \* promises whose POST /auth/refresh has no response yet
    refreshRequests,  \* number of POST /auth/refresh sent
    pc,               \* per call: the await it is suspended at
    sends,            \* per call: times the request was sent
    refreshCalls,     \* per call: times it called refreshToken
    awaiting,         \* per call: the promise `await refreshToken()` waits on
    result,           \* per call: what the API function returned or threw
    redirected,       \* per call: it called authApi.login()
    startedAt,        \* per call: refreshes already requested when it was sent
    firstResp,        \* per call: response to the first send
    replayResp,       \* per call: response to the replay
    settledAt403,     \* per call: refreshes already settled when its 403 came
    okAt403,          \* per call: refreshes already succeeded when its 403 came
    okAtReplay        \* per call: refreshes already succeeded when it replayed

refreshVars == <<isRefreshing, refreshPromise, promises, refreshInFlight, refreshRequests>>

callVars == <<pc, sends, refreshCalls, awaiting, result, redirected>>

historyVars == <<startedAt, firstResp, replayResp, settledAt403, okAt403, okAtReplay>>

httpVars == <<refreshVars, callVars, historyVars>>

\* the state of the Timeline page and of the store collections it reads
VARIABLES
    selectedMonth,     \* state selectedMonth, "YYYY-MM"
    filterType,        \* state filterType
    fixedExpenses,     \* store collection fixedExpenses
    recurringIncomes,  \* store collection recurringIncomes
    expenses,          \* store collection expenses
    incomes,           \* store collection incomes
    clock,             \* the current time, dayjs()
    renderThrown,      \* the last render threw
    timelineItems,     \* timelineItems of the last render
    filteredItems,     \* filteredItems of the last render
    groupedItems       \* Object.entries(groupedItems) of the last render

collections == <<fixedExpenses, recurringIncomes, expenses, incomes>>

rendered == <<renderThrown, timelineItems, filteredItems, groupedItems>>

timelineVars == <<selectedMonth, filterType, collections, clock, rendered>>

\* the state of the Forecast page
VARIABLES
    forecastMonth,        \* state selectedMonth of Forecast, "YYYY-MM"
    plannedExtras,        \* state plannedExtras
    forecastData,         \* state forecastData
    forecastLoading,      \* state loading of Forecast
    dateNow,              \* Date.now() at the next submission of the form
    forecastRequests,     \* the POST /forecast/calc sent, in sending order
    forecastInFlight,     \* the requests of forecastRequests not yet answered
    projectedBalanceCts,  \* the figures of the last render
    expectedIncomesCts,
    expectedExpensesCts,
    undo                  \* the figures shown before the last addition of an extra

forecastShown == <<projectedBalanceCts, expectedIncomesCts, expectedExpensesCts>>

forecastVars ==
    <<forecastMonth, plannedExtras, forecastData, forecastLoading, dateNow,
      forecastRequests, forecastInFlight, forecastShown, undo>>

\* the state of the budget store and of the forms that call it
VARIABLES
    storeCollections,  \* categories, fixedExpenses, recurringIncomes, expenses, incomes
    storeLoading,      \* loading
    storeError,        \* error: Null or a message
    apiFailure,        \* apiFailure
    storeCalls,        \* the calls of store operations, in calling order
    budgetEvents,      \* number of budgetDataChanged events dispatched
    formSubmitted      \* the submissions of the forms: their number and the last one

storeVars ==
    <<storeCollections, storeLoading, storeError, apiFailure, storeCalls,
      budgetEvents, formSubmitted>>

vars == <<httpVars, timelineVars, forecastVars, storeVars>>

\* what the actions of one part of the program leave alone
notHttp == <<timelineVars, forecastVars, storeVars>>

notTimeline == <<httpVars, forecastVars, storeVars>>

notForecast == <<httpVars, timelineVars, storeVars>>

notStore == <<httpVars, timelineVars, forecastVars>>

\* promises that are no longer pending, and those that were fulfilled
Settled == {p \in 1..Len(promises) : promises[p].state # "pending"}

Fulfilled == {p \in 1..Len(promises) : promises[p].state = "fulfilled"}

\* forecastData null; its absent fields read as 0 (`|| 0`)
NoForecast ==
    [set |-> FALSE, req |-> 0, projectedBalanceCts |-> 0,
     recurringRemainingCts |-> 0, extrasIncomeCts |-> 0,
     fixedRemainingCts |-> 0, extrasExpenseCts |-> 0]

\* no addition of a planned extra is remembered
NoUndo ==
    [phase |-> "none", id |-> 0, others |-> <<>>, projectedBalanceCts |-> 0,
     expectedIncomesCts |-> 0, expectedExpensesCts |-> 0]

\* the Forecast page is not mounted
ForecastUnmounted ==
    /\ forecastMonth = [y |-> 0, m |-> 0]
    /\ plannedExtras = <<>>
    /\ forecastData = NoForecast
    /\ forecastLoading = FALSE
    /\ dateNow = 1
    /\ forecastRequests = <<>>
    /\ forecastInFlight = {}
    /\ projectedBalanceCts = 0
    /\ expectedIncomesCts = 0
    /\ expectedExpensesCts = 0
    /\ undo = NoUndo

\* the collections of the store
Kinds == {"categories", "fixedExpenses", "recurringIncomes", "expenses", "incomes"}

\* no form was submitted
NoForm == [dayOfMonth |-> 0, startDate |-> 0, endDate |-> 0]

\* the store as create() makes it
StoreCreated ==
    /\ storeCollections = [k \in Kinds |-> <<>>]
    /\ storeLoading = FALSE
    /\ storeError = Null
    /\ apiFailure = FALSE
    /\ storeCalls = <<>>
    /\ budgetEvents = 0
    /\ formSubmitted = [n |-> 0, kind |-> "fixedExpenses", form |-> NoForm]

\* the Timeline page is not mounted
TimelineUnmounted ==
    /\ selectedMonth = [y |-> 0, m |-> 0]
    /\ filterType = "all"
    /\ fixedExpenses = <<>>
    /\ recurringIncomes = <<>>
    /\ expenses = <<>>
    /\ incomes = <<>>
    /\ clock = [valid |-> TRUE, t |-> 0]
    /\ renderThrown = FALSE
    /\ timelineItems = <<>>
    /\ filteredItems = <<>>
    /\ groupedItems = <<>>

\* no API call was made yet
HttpInit ==
    /\ isRefreshing = FALSE
    /\ refreshPromise = Null
    /\ promises = <<>>
    /\ refreshInFlight = {}
    /\ refreshRequests = 0
    /\ pc = [c \in Calls |-> "idle"]
    /\ sends = [c \in Calls |-> 0]
    /\ refreshCalls = [c \in Calls |-> 0]
    /\ awaiting = [c \in Calls |-> Null]
    /\ result = [c \in Calls |-> NoResult]
    /\ redirected = [c \in Calls |-> FALSE]
    /\ startedAt = [c \in Calls |-> 0]
    /\ firstResp = [c \in Calls |-> NoResponse]
    /\ replayResp = [c \in Calls |-> NoResponse]
    /\ settledAt403 = [c \in Calls |-> 0]
    /\ okAt403 = [c \in Calls |-> 0]
    /\ okAtReplay = [c \in Calls |-> 0]

Init == HttpInit /\ TimelineUnmounted /\ ForecastUnmounted /\ StoreCreated

\* ------------------------------------------------------------- refreshToken
RefreshInProgressNoHandle(flag, handle) == flag /\ handle = Null

\* the guard `isRefreshing && refreshPromise`
RefreshInProgress(flag, handle) == flag /\ handle # Null

\* refreshToken() called by call c: attach to the refresh in progress, or set
\* the flag, send POST /auth/refresh and keep the new promise
RefreshToken(c) ==
    IF RefreshInProgress(isRefreshing, refreshPromise)
    THEN /\ awaiting' = [awaiting EXCEPT ![c] = refreshPromise]
         /\ UNCHANGED refreshVars
    ELSE LET p == Len(promises) + 1
         IN  /\ isRefreshing' = TRUE
             /\ promises' = Append(promises, [state |-> "pending", resp |-> NoResponse])
             /\ refreshInFlight' = refreshInFlight \cup {p}
             /\ refreshRequests' = refreshRequests + 1
             /\ refreshPromise' = p
             /\ awaiting' = [awaiting EXCEPT ![c] = p]

RefreshSettlesAlwaysFulfilled(resp) == "fulfilled"

\* the body of the refresh promise after the response: it throws on a
\* rejected fetch and on a response that is not ok
RefreshSettles(resp) == IF resp.net /\ Ok(resp) THEN "fulfilled" ELSE "rejected"

AfterFinallyKeepsHandle == [isRefreshing |-> FALSE, refreshPromise |-> refreshPromise]

\* the finally block of the refresh promise
AfterFinally == [isRefreshing |-> FALSE, refreshPromise |-> Null]

\* the response (or rejection) of POST /auth/refresh of promise p arrives
RefreshResponse(p) ==
    /\ p \in refreshInFlight
    /\ \E resp \in RefreshResponses :
          promises' = [promises EXCEPT ![p] = [state |-> RefreshSettles(resp), resp |-> resp]]
    /\ refreshInFlight' = refreshInFlight \ {p}
    /\ isRefreshing' = AfterFinally.isRefreshing
    /\ refreshPromise' = AfterFinally.refreshPromise
    /\ UNCHANGED <<refreshRequests, callVars, historyVars, notHttp>>

\* ----------------------------------------------------------- handleResponse
IsForbiddenAnyFailure(resp) == ~Ok(resp)

\* response.status === 403
IsForbidden(resp) == resp.status = Forbidden

ReplayPassesOriginalRequest == TRUE

\* handleResponse(newResponse): the replay's response is handled without the
\* closure that re-sends the request
ReplayHasOriginalRequest == FALSE

\* handleResponse(response, originalRequest) of call c up to its first await;
\* hasOriginal tells whether originalRequest was passed
HandleResponse(c, resp, hasOriginal) ==
    IF IsForbidden(resp) /\ hasOriginal
    THEN /\ RefreshToken(c)
         /\ refreshCalls' = [refreshCalls EXCEPT ![c] = @ + 1]
         /\ pc' = [pc EXCEPT ![c] = "awaitRefresh"]
         /\ settledAt403' = [settledAt403 EXCEPT ![c] = Cardinality(Settled)]
         /\ okAt403' = [okAt403 EXCEPT ![c] = Cardinality(Fulfilled)]
         /\ UNCHANGED <<result, redirected>>
    ELSE /\ result' = [result EXCEPT ![c] = PlainOutcome(resp)]
         /\ pc' = [pc EXCEPT ![c] = "done"]
         /\ UNCHANGED <<refreshVars, refreshCalls, awaiting, redirected,
                        settledAt403, okAt403>>

\* the catch block of handleResponse: authApi.login() and the session error
CatchRefreshError(c) ==
    /\ redirected' = [redirected EXCEPT ![c] = TRUE]
    /\ result' = [result EXCEPT ![c] = SessionExpired]
    /\ pc' = [pc EXCEPT ![c] = "done"]

\* ------------------------------------------------------------- an API call
\* an API function is called: createRequestWithRetry sends the request
StartCall(c) ==
    /\ pc[c] = "idle"
    /\ pc' = [pc EXCEPT ![c] = "sent"]
    /\ sends' = [sends EXCEPT ![c] = @ + 1]
    /\ startedAt' = [startedAt EXCEPT ![c] = refreshRequests]
    /\ UNCHANGED <<refreshVars, refreshCalls, awaiting, result, redirected,
                   firstResp, replayResp, settledAt403, okAt403, okAtReplay>>
    /\ UNCHANGED notHttp

\* the responses to a first send: handleResponse does not read the body of a
\* 403 it refreshes for, so one body stands for all of them
FirstResponses == {resp \in Responses : resp.status = Forbidden => resp.body = BodyEmpty}

\* the first send is answered: a rejected fetch rejects the API function,
\* a response goes to handleResponse(response, originalRequest)
FirstResponse(c) ==
    /\ pc[c] = "sent"
    /\ \E resp \in FirstResponses :
          /\ firstResp' = [firstResp EXCEPT ![c] = resp]
          /\ IF ~resp.net
             THEN /\ result' = [result EXCEPT ![c] = FetchFailed]
                  /\ pc' = [pc EXCEPT ![c] = "done"]
                  /\ UNCHANGED <<refreshVars, refreshCalls, awaiting, redirected,
                                 settledAt403, okAt403>>
             ELSE HandleResponse(c, resp, TRUE)
    /\ UNCHANGED <<sends, startedAt, replayResp, okAtReplay, notHttp>>

ResumeWithoutAwait(p) == TRUE

\* `await refreshToken()` lets the call continue once the promise is settled
ResumeReady(p) == promises[p].state # "pending"

\* the call continues after `await refreshToken()`: it re-sends the request
\* when the promise was fulfilled and runs the catch block when it was rejected
ResumeAfterRefresh(c) ==
    /\ pc[c] = "awaitRefresh"
    /\ ResumeReady(awaiting[c])
    /\ IF promises[awaiting[c]].state = "rejected"
       THEN /\ CatchRefreshError(c)
            /\ UNCHANGED <<sends, okAtReplay>>
       ELSE /\ sends' = [sends EXCEPT ![c] = @ + 1]
            /\ okAtReplay' = [okAtReplay EXCEPT ![c] = Cardinality(Fulfilled)]
            /\ pc' = [pc EXCEPT ![c] = "replaySent"]
            /\ UNCHANGED <<result, redirected>>
    /\ UNCHANGED <<refreshVars, refreshCalls, awaiting,
                   startedAt, firstResp, replayResp, settledAt403, okAt403>>
    /\ UNCHANGED notHttp

\* the replay is answered: a rejected fetch is caught by the catch block,
\* a response goes to handleResponse(newResponse), whose own rejection is
\* returned, not awaited, and so passes the catch block
ReplayResponse(c) ==
    /\ pc[c] = "replaySent"
    /\ \E resp \in Responses :
          /\ replayResp' = [replayResp EXCEPT ![c] = resp]
          /\ IF ~resp.net
             THEN /\ CatchRefreshError(c)
                  /\ UNCHANGED <<refreshVars, refreshCalls, awaiting,
                                 settledAt403, okAt403>>
             ELSE HandleResponse(c, resp, ReplayHasOriginalRequest)
    /\ UNCHANGED <<sends, startedAt, firstResp, okAtReplay, notHttp>>

Next ==
    \/ \E c \in Calls : StartCall(c)
    \/ \E c \in Calls : FirstResponse(c)
    \/ \E p \in 1..Len(promises) : RefreshResponse(p)
    \/ \E c \in Calls : ResumeAfterRefresh(c)
    \/ \E c \in Calls : ReplayResponse(c)

Spec == Init /\ [][Next]_vars

TypeOK ==
    /\ isRefreshing \in BOOLEAN
    /\ refreshPromise \in 0..Len(promises)
    /\ refreshInFlight \subseteq 1..Len(promises)
    /\ \A c \in Calls : pc[c] \in {"idle", "sent", "awaitRefresh", "replaySent", "done"}

\* ================================================================ timeline
\* Model of the Timeline page (src/src/pages/Timeline.tsx): on every render
\* generateTimelineItems merges the four collections of the store for the
\* selected month, the result is filtered by type and grouped by date.
\* Labels, amounts, categories and notes are copied into the items unchanged
\* and are left out.

\* ------------------------------------------------------------------ bounds
\* number of records the four collections hold together
MaxRecords == 2

\* ---------------------------------------------------------------- calendar
\* timestamps count hours
HoursPerDay == 24

\* year of day number 0
EpochYear == 2025

IsLeap(y) == (y % 4 = 0 /\ y % 100 # 0) \/ y % 400 = 0

DaysInMonth(y, m) ==
    CASE m \in {4, 6, 9, 11} -> 30
      [] m = 2               -> IF IsLeap(y) THEN 29 ELSE 28
      [] OTHER               -> 31

DaysInYear(y) == IF IsLeap(y) THEN 366 ELSE 365

RECURSIVE DaysBeforeMonth(_, _)
DaysBeforeMonth(y, m) ==
    IF m = 1 THEN 0 ELSE DaysBeforeMonth(y, m - 1) + DaysInMonth(y, m - 1)

RECURSIVE DaysBeforeYear(_)
DaysBeforeYear(y) ==
    IF y = EpochYear THEN 0 ELSE DaysBeforeYear(y - 1) + DaysInYear(y - 1)

\* the years of the calendar
CalendarYears == {EpochYear, EpochYear + 1}

\* day number of the first day of each month
FirstDayOf == [y \in CalendarYears, m \in 1..12 |-> DaysBeforeYear(y) + DaysBeforeMonth(y, m)]

\* new Date(y, m - 1, d): a day past the end of the month runs into the
\* following months
DayNumber(y, m, d) == FirstDayOf[y, m] + (d - 1)

\* the calendar date of day number n, searched from month m of year y on
RECURSIVE DateFrom(_, _, _)
DateFrom(y, m, n) ==
    IF n < DaysInMonth(y, m)
    THEN [y |-> y, m |-> m, d |-> n + 1]
    ELSE IF m = 12 THEN DateFrom(y + 1, 1, n - DaysInMonth(y, m))
         ELSE DateFrom(y, m + 1, n - DaysInMonth(y, m))

\* the calendar date of every day number
Calendar ==
    [n \in 0..(DaysInYear(EpochYear) + DaysInYear(EpochYear + 1) - 1) |->
        DateFrom(EpochYear, 1, n)]

DateOfDay(n) == Calendar[n]

\* ------------------------------------------------------------------- dayjs
\* texts: "YYYY-MM-DD" with its three numbers, a text that is no date, and
\* undefined
DateText(y, m, d) == [kind |-> "date", y |-> y, m |-> m, d |-> d]

Malformed == [kind |-> "malformed", y |-> 0, m |-> 0, d |-> 0]

Undefined == [kind |-> "undefined", y |-> 0, m |-> 0, d |-> 0]

\* a field that is undefined or empty is falsy
Truthy(text) == text.kind \notin {"undefined", "empty"}

\* dayOfMonth undefined
NoDay == 0

InvalidDate == [valid |-> FALSE, t |-> 0]

\* "YYYY-MM" as text
MonthText(y, m) == [y |-> y, m |-> m]

NoMonth == MonthText(0, 0)

\* dayjs(text): undefined is the current time, a text that matches no date
\* pattern is invalid, "YYYY-MM-DD" is midnight of new Date(y, m - 1, d)
Dayjs(text, now) ==
    CASE text.kind = "undefined" -> now
      [] text.kind = "malformed" -> InvalidDate
      [] OTHER -> [valid |-> TRUE, t |-> DayNumber(text.y, text.m, text.d) * HoursPerDay]

\* dayjs("YYYY-MM"): the first of the month
DayjsMonth(month) == [valid |-> TRUE, t |-> DayNumber(month.y, month.m, 1) * HoursPerDay]

\* format('YYYY-MM-DD')
FormatDate(date) == DateOfDay(date.t \div HoursPerDay)

\* format('YYYY-MM'); "Invalid Date" is no month
FormatMonth(date) ==
    IF date.valid THEN MonthText(FormatDate(date).y, FormatDate(date).m) ELSE NoMonth

StartOfMonth(date) ==
    LET f == FormatDate(date)
    IN  [valid |-> TRUE, t |-> DayNumber(f.y, f.m, 1) * HoursPerDay]

EndOfMonth(date) ==
    LET f == FormatDate(date)
    IN  [valid |-> TRUE,
         t |-> DayNumber(f.y, f.m, DaysInMonth(f.y, f.m)) * HoursPerDay + (HoursPerDay - 1)]

\* comparisons of valueOf(); every comparison with an invalid date is false
IsBefore(a, b) == a.valid /\ b.valid /\ a.t < b.t

IsAfter(a, b) == a.valid /\ b.valid /\ a.t > b.t

IsSame(a, b) == a.valid /\ b.valid /\ a.t = b.t

IsSameOrBeforeStrict(a, b) == IsBefore(a, b)

IsSameOrBefore(a, b) == IsSame(a, b) \/ IsBefore(a, b)

IsSameOrAfter(a, b) == IsSame(a, b) \/ IsAfter(a, b)

IsBetweenUnchecked(x, a, b) == TRUE

\* x.isBetween(a, b, null, '[]')
IsBetween(x, a, b) ==
    \/ ~IsBefore(x, a) /\ ~IsAfter(x, b)
    \/ ~IsAfter(x, a) /\ ~IsBefore(x, b)

\* ------------------------------------------------- generateTimelineItems
\* `${selectedMonth}-${dayOfMonth.toString().padStart(2, '0')}`
OccurrenceText(month, dayOfMonth) == DateText(month.y, month.m, dayOfMonth)

\* the condition under which a fixed expense or recurring income is pushed
IncludeRecurring(month, rec, now) ==
    LET occurrence == Dayjs(OccurrenceText(month, rec.dayOfMonth), now)
        monthStart == StartOfMonth(DayjsMonth(month))
        monthEnd == EndOfMonth(DayjsMonth(month))
    IN  /\ IsBetween(occurrence, monthStart, monthEnd)
        /\ IsSameOrBefore(Dayjs(rec.startDate, now), occurrence)
        /\ (~Truthy(rec.endDate) \/ IsSameOrAfter(Dayjs(rec.endDate, now), occurrence))

IncludeOneOffAlways(month, rec, now) == TRUE

\* the condition under which an expense or income is pushed
IncludeOneOff(month, rec, now) == FormatMonth(Dayjs(rec.dateISO, now)) = month

Item(type, id, date) == [type |-> type, id |-> id, date |-> date]

\* the items one forEach over fixed expenses or recurring incomes pushes
RECURSIVE RecurringItems(_, _, _, _)
RecurringItems(month, recs, type, now) ==
    IF recs = <<>> THEN <<>>
    ELSE LET rec == Head(recs)
             rest == RecurringItems(month, Tail(recs), type, now)
         IN  IF IncludeRecurring(month, rec, now)
             THEN <<Item(type, rec.id,
                         Dayjs(OccurrenceText(month, rec.dayOfMonth), now))>> \o rest
             ELSE rest

\* the items one forEach over expenses or incomes pushes
RECURSIVE OneOffItems(_, _, _, _)
OneOffItems(month, recs, type, now) ==
    IF recs = <<>> THEN <<>>
    ELSE LET rec == Head(recs)
             rest == OneOffItems(month, Tail(recs), type, now)
         IN  IF IncludeOneOff(month, rec, now)
             THEN <<Item(type, rec.id, Dayjs(rec.dateISO, now))>> \o rest
             ELSE rest

RECURSIVE InsertByDateBeforeTies(_, _)
InsertByDateBeforeTies(sorted, x) ==
    IF sorted = <<>> THEN <<x>>
    ELSE IF Head(sorted).date.t - x.date.t >= 0
         THEN <<x>> \o sorted
         ELSE <<Head(sorted)>> \o InsertByDateBeforeTies(Tail(sorted), x)

\* x put behind the items of a sorted list that are not later than x
RECURSIVE InsertByDate(_, _)
InsertByDate(sorted, x) ==
    IF sorted = <<>> THEN <<x>>
    ELSE IF Head(sorted).date.t - x.date.t > 0
         THEN <<x>> \o sorted
         ELSE <<Head(sorted)>> \o InsertByDate(Tail(sorted), x)

RECURSIVE SortFrom(_, _)
SortFrom(sorted, items) ==
    IF items = <<>> THEN sorted
    ELSE SortFrom(InsertByDate(sorted, Head(items)), Tail(items))

SortByDateUnsorted(items) == items

\* items.sort((a, b) => a.date.valueOf() - b.date.valueOf()), a stable sort
SortByDate(items) == SortFrom(<<>>, items)

\* dayOfMonth.toString() throws a TypeError on an undefined dayOfMonth
Throws(recs) == \E i \in 1..Len(recs) : recs[i].dayOfMonth = NoDay

\* generateTimelineItems(): thrown tells that it threw instead of returning
GenerateTimelineItems(month, fixed, recurring, exps, incs, now) ==
    IF Throws(fixed) \/ Throws(recurring)
    THEN [thrown |-> TRUE, items |-> <<>>]
    ELSE [thrown |-> FALSE,
          items |-> SortByDate(
              RecurringItems(month, fixed, "fixed-expense", now)
              \o RecurringItems(month, recurring, "recurring-income", now)
              \o OneOffItems(month, exps, "variable-expense", now)
              \o OneOffItems(month, incs, "other-income", now))]

ItemTypes == {"fixed-expense", "recurring-income", "variable-expense", "other-income"}

FilterTypes == ItemTypes \cup {"all"}

RECURSIVE KeepType(_, _)
KeepType(items, type) ==
    IF items = <<>> THEN <<>>
    ELSE IF Head(items).type = type
         THEN <<Head(items)>> \o KeepType(Tail(items), type)
         ELSE KeepType(Tail(items), type)

FilterItemsIgnoringAll(items, filter) == KeepType(items, filter)

\* filteredItems
FilterItems(items, filter) == IF filter = "all" THEN items ELSE KeepType(items, filter)

GroupStepResets(groups, item) ==
    LET key == FormatDate(item.date)
    IN  IF \E g \in 1..Len(groups) : groups[g].key = key
        THEN [g \in 1..Len(groups) |->
                 IF groups[g].key = key
                 THEN [key |-> key, items |-> <<item>>]
                 ELSE groups[g]]
        ELSE Append(groups, [key |-> key, items |-> <<item>>])

\* the step of the reduce: the item is pushed to the group of its date key,
\* created behind the others when it is new
GroupStep(groups, item) ==
    LET key == FormatDate(item.date)
    IN  IF \E g \in 1..Len(groups) : groups[g].key = key
        THEN [g \in 1..Len(groups) |->
                 IF groups[g].key = key
                 THEN [key |-> key, items |-> Append(groups[g].items, item)]
                 ELSE groups[g]]
        ELSE Append(groups, [key |-> key, items |-> <<item>>])

RECURSIVE GroupFrom(_, _)
GroupFrom(groups, items) ==
    IF items = <<>> THEN groups
    ELSE GroupFrom(GroupStep(groups, Head(items)), Tail(items))

\* groupedItems, as Object.entries lists it: the keys in creation order
GroupItems(items) == GroupFrom(<<>>, items)

\* ------------------------------------------------------- the Timeline page
\* the months the month input is set to
Months == {MonthText(2025, 2), MonthText(2025, 3)}

\* the dates the records of the store carry
Feb10 == DateText(2025, 2, 10)

Mar10 == DateText(2025, 3, 10)

\* the days of the month of the recurring records
DaysOfMonth == {10, 31}

\* the time the page is opened at: noon of 2025-02-10
Clocks == {[valid |-> TRUE, t |-> DayNumber(2025, 2, 10) * HoursPerDay + 12]}

\* the fixed expenses the store may hold under id; one has no dayOfMonth
FixedExpenseRecords(id) ==
    [id : {id}, dayOfMonth : DaysOfMonth,
     startDate : {Feb10, Mar10}, endDate : {Undefined, Mar10}]
    \cup [id : {id}, dayOfMonth : {NoDay}, startDate : {Feb10}, endDate : {Undefined}]

\* the recurring incomes the store may hold under id
RecurringIncomeRecords(id) ==
    [id : {id}, dayOfMonth : DaysOfMonth \cup {NoDay},
     startDate : {Mar10}, endDate : {Undefined}]

\* the expenses the store may hold under id
ExpenseRecords(id) ==
    [id : {id}, dateISO : {Feb10, Mar10, Malformed, Undefined}]

\* the incomes the store may hold under id
IncomeRecords(id) ==
    [id : {id}, dateISO : {Mar10, Undefined}]

NumRecords == Len(fixedExpenses) + Len(recurringIncomes) + Len(expenses) + Len(incomes)

\* one render of the page over the given state
Render(month, filter, fixed, recurring, exps, incs) ==
    LET generated == GenerateTimelineItems(month, fixed, recurring, exps, incs, clock)
        filtered == FilterItems(generated.items, filter)
    IN  /\ renderThrown' = generated.thrown
        /\ timelineItems' = generated.items
        /\ filteredItems' = filtered
        /\ groupedItems' = GroupItems(filtered)

\* the page is mounted: selectedMonth is getCurrentMonth(), no filter
TimelineInit ==
    /\ HttpInit
    /\ ForecastUnmounted
    /\ StoreCreated
    /\ clock \in Clocks
    /\ selectedMonth = FormatMonth(clock)
    /\ filterType = "all"
    /\ fixedExpenses = <<>>
    /\ recurringIncomes = <<>>
    /\ expenses = <<>>
    /\ incomes = <<>>
    /\ renderThrown = FALSE
    /\ timelineItems = <<>>
    /\ filteredItems = <<>>
    /\ groupedItems = <<>>

\* the month input changes
SetSelectedMonth(month) ==
    /\ ~renderThrown
    /\ month # selectedMonth
    /\ selectedMonth' = month
    /\ Render(month, filterType, fixedExpenses, recurringIncomes, expenses, incomes)
    /\ UNCHANGED <<filterType, collections, clock, notTimeline>>

\* the type select changes
SetFilterType(filter) ==
    /\ ~renderThrown
    /\ filter # filterType
    /\ filterType' = filter
    /\ Render(selectedMonth, filter, fixedExpenses, recurringIncomes, expenses, incomes)
    /\ UNCHANGED <<selectedMonth, collections, clock, notTimeline>>

\* the store gets one more fixed expense
FixedExpenseStored(rec) ==
    /\ ~renderThrown
    /\ NumRecords < MaxRecords
    /\ fixedExpenses' = Append(fixedExpenses, rec)
    /\ Render(selectedMonth, filterType, fixedExpenses', recurringIncomes, expenses, incomes)
    /\ UNCHANGED <<selectedMonth, filterType, recurringIncomes, expenses, incomes,
                   clock, notTimeline>>

\* the store gets one more recurring income
RecurringIncomeStored(rec) ==
    /\ ~renderThrown
    /\ NumRecords < MaxRecords
    /\ recurringIncomes' = Append(recurringIncomes, rec)
    /\ Render(selectedMonth, filterType, fixedExpenses, recurringIncomes', expenses, incomes)
    /\ UNCHANGED <<selectedMonth, filterType, fixedExpenses, expenses, incomes,
                   clock, notTimeline>>

\* the store gets one more expense
ExpenseStored(rec) ==
    /\ ~renderThrown
    /\ NumRecords < MaxRecords
    /\ expenses' = Append(expenses, rec)
    /\ Render(selectedMonth, filterType, fixedExpenses, recurringIncomes, expenses', incomes)
    /\ UNCHANGED <<selectedMonth, filterType, fixedExpenses, recurringIncomes, incomes,
                   clock, notTimeline>>

\* the store gets one more income
IncomeStored(rec) ==
    /\ ~renderThrown
    /\ NumRecords < MaxRecords
    /\ incomes' = Append(incomes, rec)
    /\ Render(selectedMonth, filterType, fixedExpenses, recurringIncomes, expenses, incomes')
    /\ UNCHANGED <<selectedMonth, filterType, fixedExpenses, recurringIncomes, expenses,
                   clock, notTimeline>>

TimelineNext ==
    \/ \E month \in Months : SetSelectedMonth(month)
    \/ \E filter \in FilterTypes : SetFilterType(filter)
    \/ \E rec \in FixedExpenseRecords(NumRecords + 1) : FixedExpenseStored(rec)
    \/ \E rec \in RecurringIncomeRecords(NumRecords + 1) : RecurringIncomeStored(rec)
    \/ \E rec \in ExpenseRecords(NumRecords + 1) : ExpenseStored(rec)
    \/ \E rec \in IncomeRecords(NumRecords + 1) : IncomeStored(rec)

SpecTimeline == TimelineInit /\ [][TimelineNext]_vars

\* ------------------------------------------------------ the Forecast page
\* POST /forecast/calc sent by the page, at most
MaxForecastRequests == 3

\* the texts typed into the amount field: "500", "120,50" and "abc"
Amount500 == [numeric |-> TRUE, euros |-> 500, cents |-> 0]

Amount120 == [numeric |-> TRUE, euros |-> 120, cents |-> 50]

AmountAbc == [numeric |-> FALSE, euros |-> 0, cents |-> 0]

\* parseCurrency: the cents of the number typed, 0 when it is no number
ParseCurrency(text) == IF text.numeric THEN text.euros * 100 + text.cents ELSE 0

\* the forms submitted
ExtraForms ==
    {[type |-> "income", amount |-> Amount500],
     [type |-> "expense", amount |-> Amount120],
     [type |-> "expense", amount |-> AmountAbc]}

\* the figures the backend answers with: the scenario baseline, and the
\* baseline of a month with extras counted in
ServerBaselines ==
    {[projectedBalanceCts |-> 460000, recurringRemainingCts |-> 460000,
      extrasIncomeCts |-> 0, fixedRemainingCts |-> 0, extrasExpenseCts |-> 0],
     [projectedBalanceCts |-> 497950, recurringRemainingCts |-> 460000,
      extrasIncomeCts |-> 50000, fixedRemainingCts |-> 0, extrasExpenseCts |-> 12050]}

\* the request failed
ForecastFailure == [projectedBalanceCts |-> -1, recurringRemainingCts |-> 0,
                    extrasIncomeCts |-> 0, fixedRemainingCts |-> 0, extrasExpenseCts |-> 0]

ForecastAnswers == ServerBaselines \cup {ForecastFailure}

\* setForecastData(data) for the answer to request q
LoadedForecast(q, answer) ==
    [set |-> TRUE, req |-> q, projectedBalanceCts |-> answer.projectedBalanceCts,
     recurringRemainingCts |-> answer.recurringRemainingCts,
     extrasIncomeCts |-> answer.extrasIncomeCts,
     fixedRemainingCts |-> answer.fixedRemainingCts,
     extrasExpenseCts |-> answer.extrasExpenseCts]

\* the fallback data of the catch block
FallbackForecast(q) ==
    [set |-> TRUE, req |-> q, projectedBalanceCts |-> 0,
     recurringRemainingCts |-> 0, extrasIncomeCts |-> 0,
     fixedRemainingCts |-> 0, extrasExpenseCts |-> 0]

\* plannedExtras.filter(extra => extra.type === type)
\*              .reduce((sum, extra) => sum + extra.amountCts, 0)
RECURSIVE PlannedCts(_, _)
PlannedCts(extras, type) ==
    IF extras = <<>> THEN 0
    ELSE (IF Head(extras).type = type THEN Head(extras).amountCts ELSE 0)
         + PlannedCts(Tail(extras), type)

ExpectedIncomesCts(data, extras) ==
    data.recurringRemainingCts + data.extrasIncomeCts + PlannedCts(extras, "income")

ExpectedExpensesCts(data, extras) ==
    data.fixedRemainingCts + data.extrasExpenseCts + PlannedCts(extras, "expense")

ProjectedBalanceNoExpenses(data, extras) ==
    data.projectedBalanceCts + PlannedCts(extras, "income")

ProjectedBalanceCts(data, extras) ==
    data.projectedBalanceCts + PlannedCts(extras, "income") - PlannedCts(extras, "expense")

\* one render of the page
ForecastRender(data, extras) ==
    /\ projectedBalanceCts' = ProjectedBalanceCts(data, extras)
    /\ expectedIncomesCts' = ExpectedIncomesCts(data, extras)
    /\ expectedExpensesCts' = ExpectedExpensesCts(data, extras)

\* the body of plannedExtras.map(extra => ({label, amountCts, dateISO, type}))
RECURSIVE SentExtras(_)
SentExtras(extras) ==
    IF extras = <<>> THEN <<>>
    ELSE <<[amountCts |-> Head(extras).amountCts, type |-> Head(extras).type]>>
         \o SentExtras(Tail(extras))

\* the effect on [selectedMonth, plannedExtras]: loadForecast up to its await
LoadForecast(month, extras, cause) ==
    /\ forecastLoading' = TRUE
    /\ forecastRequests' =
          Append(forecastRequests,
                 [month |-> month, plannedExtras |-> SentExtras(extras), cause |-> cause])
    /\ forecastInFlight' = forecastInFlight \cup {Len(forecastRequests) + 1}

\* prev.filter(extra => extra.id !== id)
RECURSIVE WithoutExtra(_, _)
WithoutExtra(extras, id) ==
    IF extras = <<>> THEN <<>>
    ELSE IF Head(extras).id # id THEN <<Head(extras)>> \o WithoutExtra(Tail(extras), id)
         ELSE WithoutExtra(Tail(extras), id)

\* the page is mounted: the first render and the first run of the effect
ForecastInit ==
    /\ HttpInit
    /\ TimelineUnmounted
    /\ StoreCreated
    /\ forecastMonth \in Months
    /\ plannedExtras = <<>>
    /\ forecastData = NoForecast
    /\ forecastLoading = TRUE
    /\ dateNow = 1
    /\ forecastRequests =
          <<[month |-> forecastMonth, plannedExtras |-> <<>>, cause |-> "mount"]>>
    /\ forecastInFlight = {1}
    /\ projectedBalanceCts = ProjectedBalanceCts(NoForecast, <<>>)
    /\ expectedIncomesCts = ExpectedIncomesCts(NoForecast, <<>>)
    /\ expectedExpensesCts = ExpectedExpensesCts(NoForecast, <<>>)
    /\ undo = NoUndo

\* onSubmit of the form of planned extras
SubmitExtra(form) ==
    /\ Len(forecastRequests) < MaxForecastRequests
    /\ LET newExtra == [id |-> dateNow, amountCts |-> ParseCurrency(form.amount),
                        type |-> form.type]
       IN  /\ plannedExtras' = Append(plannedExtras, newExtra)
           /\ undo' = IF forecastInFlight = {}
                       THEN [phase |-> "added", id |-> newExtra.id,
                             others |-> plannedExtras,
                             projectedBalanceCts |-> projectedBalanceCts,
                             expectedIncomesCts |-> expectedIncomesCts,
                             expectedExpensesCts |-> expectedExpensesCts]
                       ELSE NoUndo
    /\ dateNow' = dateNow + 1
    /\ ForecastRender(forecastData, plannedExtras')
    /\ LoadForecast(forecastMonth, plannedExtras', "extras")
    /\ UNCHANGED <<forecastMonth, forecastData, notForecast>>

\* removeExtra(id), from the button of a listed extra
RemoveExtra(id) ==
    /\ Len(forecastRequests) < MaxForecastRequests
    /\ \E i \in 1..Len(plannedExtras) : plannedExtras[i].id = id
    /\ plannedExtras' = WithoutExtra(plannedExtras, id)
    /\ undo' = IF undo.phase = "added" /\ undo.id = id
               THEN [undo EXCEPT !.phase = "removed"]
               ELSE NoUndo
    /\ ForecastRender(forecastData, plannedExtras')
    /\ LoadForecast(forecastMonth, plannedExtras', "extras")
    /\ UNCHANGED <<forecastMonth, forecastData, dateNow, notForecast>>

\* the month input of the page changes
SetForecastMonth(month) ==
    /\ Len(forecastRequests) < MaxForecastRequests
    /\ month # forecastMonth
    /\ forecastMonth' = month
    /\ undo' = NoUndo
    /\ ForecastRender(forecastData, plannedExtras)
    /\ LoadForecast(month, plannedExtras, "month")
    /\ UNCHANGED <<plannedExtras, forecastData, dateNow, notForecast>>

\* forecastApi.calculate of request q settles: the rest of loadForecast
ForecastSettles(q, answer) ==
    /\ q \in forecastInFlight
    /\ forecastInFlight' = forecastInFlight \ {q}
    /\ forecastData' = IF answer = ForecastFailure THEN FallbackForecast(q)
                       ELSE LoadedForecast(q, answer)
    /\ forecastLoading' = FALSE
    /\ undo' = IF forecastRequests[q].cause = "extras" THEN undo ELSE NoUndo
    /\ ForecastRender(forecastData', plannedExtras)
    /\ UNCHANGED <<forecastMonth, plannedExtras, dateNow, forecastRequests, notForecast>>

ForecastNext ==
    \/ \E form \in ExtraForms : SubmitExtra(form)
    \/ \E id \in 1..dateNow : RemoveExtra(id)
    \/ \E month \in Months : SetForecastMonth(month)
    \/ \E q \in 1..Len(forecastRequests), answer \in ForecastAnswers :
          ForecastSettles(q, answer)

SpecForecast == ForecastInit /\ [][ForecastNext]_vars

\* --------------------------------------------------------- the budget store
\* calls of store operations, at most
MaxStoreCalls == 3

\* a record without id: the property is undefined
NoId == 0

\* the operations that load: the five loads and getMonthSummary
LoadKinds == Kinds \cup {"summary"}

\* the collections loaded for one month
MonthlyKinds == {"expenses", "incomes"}

\* the collections whose mutations dispatch budgetDataChanged
EventKinds == {"fixedExpenses", "recurringIncomes", "expenses", "incomes"}

\* the data of a record: a recurring record, a one-off record, a category
RecurringData(dayOfMonth, startDate, endDate) ==
    [dayOfMonth |-> dayOfMonth, startDate |-> startDate, endDate |-> endDate]

OneOffData(dateISO) == [dateISO |-> dateISO]

CategoryData(name) == [name |-> name]

NoData == <<>>

\* the record the backend holds under _id
ServerRecord(serverId, data) == [serverId |-> serverId, data |-> data]

\* response.items of GET for the collection (and the month)
ServerItems(kind, month) ==
    CASE kind \in MonthlyKinds ->
            IF month = MonthText(2025, 2)
            THEN <<ServerRecord(1, OneOffData(Feb10))>>
            ELSE <<ServerRecord(2, OneOffData(Mar10))>>
      [] kind = "categories" -> <<ServerRecord(1, CategoryData("food"))>>
      [] OTHER -> <<ServerRecord(1, RecurringData(15, Feb10, Undefined))>>

\* the record of a load: id is the _id of the item, the listed fields are kept
MapItem(item) ==
    [id |-> item.serverId, serverId |-> NoId, of |-> item.serverId, data |-> item.data]

RECURSIVE MapItems(_)
MapItems(items) ==
    IF items = <<>> THEN <<>> ELSE <<MapItem(Head(items))>> \o MapItems(Tail(items))

\* the object of the response of a create, put into the collection as it is
AsReturned(record) ==
    [id |-> NoId, serverId |-> record.serverId, of |-> record.serverId, data |-> record.data]

\* { ...rec, ...updated }
Merged(rec, updated) ==
    [rec EXCEPT !.serverId = updated.serverId, !.data = updated.data]

\* { ...inc, ...updates, id: inc.id } of updateRecurringIncome
MergedUpdates(rec, updates) == [rec EXCEPT !.data = updates]

\* collection.map(rec => rec.id === id ? merge(rec) : rec)
UpdatedRecords(kind, recs, id, updates, updated) ==
    [i \in 1..Len(recs) |->
        IF recs[i].id = id
        THEN IF kind = "recurringIncomes" THEN MergedUpdates(recs[i], updates)
             ELSE Merged(recs[i], updated)
        ELSE recs[i]]

\* collection.filter(rec => rec.id !== id)
RECURSIVE WithoutRecord(_, _)
WithoutRecord(recs, id) ==
    IF recs = <<>> THEN <<>>
    ELSE IF Head(recs).id # id THEN <<Head(recs)>> \o WithoutRecord(Tail(recs), id)
         ELSE WithoutRecord(Tail(recs), id)

\* one call of a store operation
StoreCall(op, kind, month, id, data, state) ==
    [op |-> op, kind |-> kind, month |-> month, id |-> id, data |-> data, state |-> state]

\* the message of the error the API function threw
FailureMessage == "Erreur 500"

LoadShortCircuitsNever(flag) == FALSE

\* `if (state.apiFailure) return` at the head of the load operations
LoadShortCircuits(flag) == flag

\* a load operation up to its await: loadCategories, ..., getMonthSummary
CallLoad(kind, month) ==
    /\ Len(storeCalls) < MaxStoreCalls
    /\ IF LoadShortCircuits(apiFailure)
       THEN /\ storeCalls' = Append(storeCalls,
                                    StoreCall("load", kind, month, NoId, NoData, "skipped"))
            /\ UNCHANGED <<storeLoading, storeError>>
       ELSE /\ storeCalls' = Append(storeCalls,
                                    StoreCall("load", kind, month, NoId, NoData, "pending"))
            /\ storeLoading' = TRUE
            /\ storeError' = Null
    /\ UNCHANGED <<storeCollections, apiFailure, budgetEvents, formSubmitted, notStore>>

\* the collection a load sets from its response: items mapped, [] without items
LoadedRecords(kind, month, answer) ==
    IF answer = "items" THEN MapItems(ServerItems(kind, month)) ELSE <<>>

LoadAnswers == {"items", "noItems", "error"}

\* the request of load q is answered: the rest of the load operation
LoadSettles(q, answer) ==
    /\ storeCalls[q].op = "load"
    /\ storeCalls[q].state = "pending"
    /\ LET kind == storeCalls[q].kind
       IN  IF answer = "error"
           THEN /\ storeError' = FailureMessage
                /\ apiFailure' = TRUE
                /\ storeCollections' =
                      IF kind = "summary" THEN storeCollections
                      ELSE [storeCollections EXCEPT ![kind] = <<>>]
                /\ storeCalls' = [storeCalls EXCEPT ![q].state = "failed"]
           ELSE /\ storeCollections' =
                      IF kind = "summary" THEN storeCollections
                      ELSE [storeCollections EXCEPT
                               ![kind] = LoadedRecords(kind, storeCalls[q].month, answer)]
                /\ storeCalls' = [storeCalls EXCEPT ![q].state = "fulfilled"]
                /\ UNCHANGED <<storeError, apiFailure>>
    /\ storeLoading' = FALSE
    /\ UNCHANGED <<budgetEvents, formSubmitted, notStore>>

\* setApiFailure(false)
ClearApiFailure ==
    /\ apiFailure
    /\ apiFailure' = FALSE
    /\ UNCHANGED <<storeCollections, storeLoading, storeError, storeCalls,
                   budgetEvents, formSubmitted, notStore>>

\* add, update and delete up to their await
\* a mutation runs up to the await of its API call
IssueMutation(op, kind, id, data) ==
    /\ Len(storeCalls) < MaxStoreCalls
    /\ storeLoading' = TRUE
    /\ storeError' = Null
    /\ storeCalls' = Append(storeCalls, StoreCall(op, kind, NoMonth, id, data, "pending"))
    /\ UNCHANGED <<storeCollections, apiFailure, budgetEvents, notStore>>

CallMutation(op, kind, id, data) ==
    /\ IssueMutation(op, kind, id, data)
    /\ UNCHANGED formSubmitted

\* the ids of the records listed, the targets of update and delete
ListedIds(kind) == {storeCollections[kind][i].id : i \in 1..Len(storeCollections[kind])}

\* the _id the backend gives the record created by call q
CreatedId(q) == 10 + q

\* the collection after the mutation of a call succeeded
MutatedRecords(q, recs) ==
    LET call == storeCalls[q]
    IN  CASE call.op = "add" ->
                Append(recs, AsReturned(ServerRecord(CreatedId(q), call.data)))
          [] call.op = "update" ->
                UpdatedRecords(call.kind, recs, call.id, call.data,
                               ServerRecord(call.id, call.data))
          [] OTHER -> WithoutRecord(recs, call.id)

AfterFailedMutationEmptied(recs) == <<>>

\* the catch blocks of add, update and delete set error and loading only
AfterFailedMutation(recs) == recs

\* window.dispatchEvent(new CustomEvent('budgetDataChanged')) in the try block
EventsDispatched(kind, failed) == IF kind \in EventKinds /\ ~failed THEN 1 ELSE 0

\* the request of mutation q is answered: the rest of add, update or delete
MutationSettles(q, failed) ==
    /\ storeCalls[q].op \in {"add", "update", "delete"}
    /\ storeCalls[q].state = "pending"
    /\ LET kind == storeCalls[q].kind
       IN  /\ storeCollections' =
                 [storeCollections EXCEPT
                     ![kind] = IF failed THEN AfterFailedMutation(storeCollections[kind])
                               ELSE MutatedRecords(q, storeCollections[kind])]
           /\ budgetEvents' = budgetEvents + EventsDispatched(kind, failed)
    /\ storeError' = IF failed THEN FailureMessage ELSE storeError
    /\ storeLoading' = FALSE
    /\ storeCalls' = [storeCalls EXCEPT ![q].state = IF failed THEN "rejected" ELSE "fulfilled"]
    /\ UNCHANGED <<apiFailure, formSubmitted, notStore>>

\* the operations of the store called in any order
\* the collections whose operations are called, with getMonthSummary
StoreLoads == {"expenses", "summary"}

StoreMutations == {"expenses", "recurringIncomes", "categories"}

\* the data of a record created, and of a record changed
NewData(kind) ==
    CASE kind = "categories" -> CategoryData("rent")
      [] kind \in MonthlyKinds -> OneOffData(Mar10)
      [] OTHER -> RecurringData(15, Feb10, Undefined)

ChangedData(kind) ==
    CASE kind = "categories" -> CategoryData("home")
      [] kind \in MonthlyKinds -> OneOffData(Feb10)
      [] OTHER -> RecurringData(31, Feb10, Mar10)

StoreInit == HttpInit /\ TimelineUnmounted /\ ForecastUnmounted /\ StoreCreated

StoreNext ==
    \/ \E kind \in StoreLoads, month \in Months : CallLoad(kind, month)
    \/ \E q \in 1..Len(storeCalls), answer \in LoadAnswers : LoadSettles(q, answer)
    \/ ClearApiFailure
    \/ \E kind \in StoreMutations : CallMutation("add", kind, NoId, NewData(kind))
    \/ \E kind \in StoreMutations : \E id \in ListedIds(kind) :
          CallMutation("update", kind, id, ChangedData(kind))
    \/ \E kind \in StoreMutations : \E id \in ListedIds(kind) :
          CallMutation("delete", kind, id, NoData)
    \/ \E q \in 1..Len(storeCalls), failed \in BOOLEAN : MutationSettles(q, failed)

SpecStore == StoreInit /\ [][StoreNext]_vars

\* the create/edit forms of the fixed expenses and of the recurring incomes
FormKinds == {"fixedExpenses", "recurringIncomes"}

\* the value of a date input left empty
EmptyText == [kind |-> "empty", y |-> 0, m |-> 0, d |-> 0]

\* submissions of a form, at most
MaxFormSubmits == 2

\* what the user can type: a day in the range with an end date before the
\* start date, on it, or none, and a day below or above the range
FormValues ==
    [dayOfMonth : {15}, startDate : {Mar10}, endDate : {EmptyText, Feb10, Mar10}]
        \cup [dayOfMonth : {0, 32}, startDate : {Mar10}, endDate : {EmptyText}]

\* the schema of the form: z.coerce.number().min(1).max(31) on dayOfMonth,
\* z.string().min(1) on startDate
SchemaAccepts(form) ==
    /\ form.dayOfMonth >= 1
    /\ form.dayOfMonth <= 31
    /\ Truthy(form.startDate)

\* a < b on two texts "YYYY-MM-DD", the empty text before every other
StringLess(a, b) ==
    CASE b.kind = "empty" -> FALSE
      [] a.kind = "empty" -> TRUE
      [] OTHER ->
            \/ a.y < b.y
            \/ a.y = b.y /\ a.m < b.m
            \/ a.y = b.y /\ a.m = b.m /\ a.d < b.d

EndBeforeStartNever(form) == FALSE

\* `data.endDate && data.endDate < data.startDate`
EndBeforeStart(form) == Truthy(form.endDate) /\ StringLess(form.endDate, form.startDate)

\* `data.endDate || undefined`
OrUndefined(text) == IF Truthy(text) THEN text ELSE Undefined

\* the record onSubmit hands to the store
FormData(form) ==
    RecurringData(form.dayOfMonth, form.startDate, OrUndefined(form.endDate))

\* handleSubmit(onSubmit): the resolver validates, onSubmit runs on valid
\* data only, returns on an end date before the start date, and otherwise
\* calls update when a record is being edited and add when none is
FormSubmit(kind, form, editingId) ==
    /\ formSubmitted.n < MaxFormSubmits
    /\ formSubmitted' = [n |-> formSubmitted.n + 1, kind |-> kind, form |-> form]
    /\ IF ~SchemaAccepts(form) \/ EndBeforeStart(form)
       THEN UNCHANGED <<storeCollections, storeLoading, storeError, apiFailure,
                        storeCalls, budgetEvents, notStore>>
       ELSE IF editingId # NoId
            THEN IssueMutation("update", kind, editingId, FormData(form))
            ELSE IssueMutation("add", kind, NoId, FormData(form))

FormsNext ==
    \/ \E kind \in FormKinds : CallLoad(kind, NoMonth)
    \/ \E q \in 1..Len(storeCalls) : LoadSettles(q, "items")
    \/ \E kind \in FormKinds, form \in FormValues :
          \E editingId \in {NoId} \cup ListedIds(kind) : FormSubmit(kind, form, editingId)
    \/ \E q \in 1..Len(storeCalls), failed \in BOOLEAN : MutationSettles(q, failed)

SpecForms == StoreInit /\ [][FormsNext]_vars

\* the store under the Timeline page: loadData on mount and on every change
\* of the month
\* runs of loadData, at most
MaxLoadData == 2

\* the loads of Promise.all([...]) in loadData, in calling order
LoadDataKinds == <<"categories", "fixedExpenses", "recurringIncomes", "expenses", "incomes">>

\* the calls of loadExpenses made so far
ExpenseLoads == {q \in 1..Len(storeCalls) : storeCalls[q].kind = "expenses"}

\* the month of the last run of loadData
RequestedMonth ==
    IF storeCalls = <<>> THEN NoMonth ELSE storeCalls[Len(storeCalls)].month

\* loadData(): the five loads run up to their awaits, one after the other
LoadData(month) ==
    /\ Cardinality(ExpenseLoads) < MaxLoadData
    /\ month # RequestedMonth
    /\ LET skipped == LoadShortCircuits(apiFailure)
       IN  /\ storeCalls' =
                 storeCalls \o
                 [i \in 1..Len(LoadDataKinds) |->
                     StoreCall("load", LoadDataKinds[i],
                               IF LoadDataKinds[i] \in MonthlyKinds THEN month ELSE NoMonth,
                               NoId, NoData,
                               IF skipped THEN "skipped" ELSE "pending")]
           /\ storeLoading' = IF skipped THEN storeLoading ELSE TRUE
           /\ storeError' = IF skipped THEN storeError ELSE Null
    /\ UNCHANGED <<storeCollections, apiFailure, budgetEvents, formSubmitted, notStore>>

\* what the backend answers to the loads of loadData: the month's records
\* (failing answers are explored under SpecStore)
LoadDataAnswers == {"items"}

LoadsNext ==
    \/ \E month \in Months : LoadData(month)
    \/ \E q \in 1..Len(storeCalls), answer \in LoadDataAnswers : LoadSettles(q, answer)

SpecLoads == StoreInit /\ [][LoadsNext]_vars

\* ------------------------------------------------------------ properties
\* the first send of call c was answered 403
Got403(c) == firstResp[c].net /\ firstResp[c].status = Forbidden

\* call c has continued past `await refreshToken()`
Resumed(c) == Got403(c) /\ pc[c] # "awaitRefresh"

\* the refresh of promise p was answered and failed
RefreshFailed(p) ==
    /\ promises[p].resp # NoResponse
    /\ ~(promises[p].resp.net /\ Ok(promises[p].resp))

\* C1: at most one POST /auth/refresh is in flight at any time, and a call
\* suspended on a pending refresh is suspended on the one in flight.
C1_AtMostOneRefreshInFlight ==
    /\ Cardinality(refreshInFlight) <= 1
    /\ \A c \in Calls :
          (pc[c] = "awaitRefresh" /\ promises[awaiting[c]].state = "pending")
              => awaiting[c] \in refreshInFlight

C1_Witness ==
    /\ \A c \in Calls : pc[c] = "awaitRefresh" /\ awaiting[c] = 1
    /\ refreshInFlight = {1}
    /\ refreshRequests = 1

\* C2 as stated: when all the calls were in flight together and each was
\* answered 403, one refresh request was sent in total, whatever the order
\* of the responses.
C2_OneRefreshForEveryOrder ==
    (\A c \in Calls : Got403(c) /\ startedAt[c] = 0) => refreshRequests = 1

\* C2 amended: one refresh request is sent per group of 403s that arrive
\* between two refresh responses; the 403s that all arrive before the first
\* refresh response share one request.
C2_OneRefreshPerGroup ==
    refreshRequests = Cardinality({settledAt403[c] : c \in {d \in Calls : Got403(d)}})

C2_Witness ==
    /\ \A c \in Calls : Got403(c) /\ settledAt403[c] = 0 /\ Resumed(c)
    /\ refreshRequests = 1

\* C3: a call sends its request at most twice and calls refreshToken at most
\* once; a 403 on the first send makes it call refreshToken once, the replay
\* is sent only after a fulfilled refresh, and the answer to the replay,
\* a second 403 included, ends the call.
C3_OneRefreshOneReplay ==
    \A c \in Calls :
        /\ sends[c] <= 2
        /\ refreshCalls[c] <= 1
        /\ Got403(c) => refreshCalls[c] = 1
        /\ sends[c] = 2 => (refreshCalls[c] = 1 /\ promises[awaiting[c]].state = "fulfilled")
        /\ (Resumed(c) /\ promises[awaiting[c]].state = "fulfilled") => sends[c] = 2
        /\ replayResp[c] # NoResponse => (pc[c] = "done" /\ sends[c] = 2)

C3_Witness ==
    \E c \in Calls :
        /\ pc[c] = "done"
        /\ replayResp[c].net /\ replayResp[c].status = Forbidden
        /\ sends[c] = 2 /\ refreshCalls[c] = 1

\* C4 as stated: after a successful refresh the caller gets the outcome of
\* the replay, an HTTP error or a transport failure of the replay included,
\* and the replay's failure does not redirect to the login.
C4_ReplayOutcomeReturned ==
    \A c \in Calls :
        (pc[c] = "done" /\ replayResp[c] # NoResponse) =>
            /\ result[c] = IF replayResp[c].net THEN PlainOutcome(replayResp[c])
                           ELSE FetchFailed
            /\ ~redirected[c]

\* C5: a call that waited on a refresh that failed (response not ok, or no
\* response) ends with the session-expired error, has called the login
\* redirect and has not re-sent its request.
C5_RefreshFailureExpiresSession ==
    \A c \in Calls :
        (Resumed(c) /\ RefreshFailed(awaiting[c])) =>
            /\ pc[c] = "done"
            /\ result[c] = SessionExpired
            /\ redirected[c]
            /\ sends[c] = 1
            /\ replayResp[c] = NoResponse

C5_Witness ==
    /\ \A c \in Calls : Resumed(c) /\ awaiting[c] = 1 /\ result[c] = SessionExpired
    /\ RefreshFailed(1)

\* C6 as stated: calls in flight together and all answered 403 end the same
\* way, all successful after one retry each or all session-expired (stated
\* for the runs in which every replay got an HTTP response).
C6_AllEndTheSameWay ==
    (\A c \in Calls : /\ Got403(c) /\ startedAt[c] = 0 /\ pc[c] = "done"
                       /\ (replayResp[c] = NoResponse \/ replayResp[c].net)) =>
        \/ \A c \in Calls : result[c].kind = "ok" /\ sends[c] = 2
        \/ \A c \in Calls : result[c] = SessionExpired

\* C6 amended: calls whose 403s arrived during the same refresh get the
\* outcome of that refresh: either each re-sends its request once, or each
\* fails with session-expired without re-sending; the outcomes of the
\* replays themselves may differ.
C6_SameRefreshOutcome ==
    \A c, d \in Calls :
        (Resumed(c) /\ Resumed(d) /\ settledAt403[c] = settledAt403[d]) =>
            \/ sends[c] = 2 /\ sends[d] = 2
            \/ /\ sends[c] = 1 /\ sends[d] = 1
               /\ result[c] = SessionExpired /\ result[d] = SessionExpired

C6_Witness ==
    \E c, d \in Calls :
        /\ c # d
        /\ Resumed(c) /\ Resumed(d) /\ settledAt403[c] = settledAt403[d]
        /\ pc[c] = "done" /\ pc[d] = "done"
        /\ sends[c] = 2 /\ sends[d] = 2
        /\ result[c].kind = "ok" /\ result[d].kind = "error"

\* C7: a request is re-sent only after the refresh its call waited on was
\* answered successfully, and that answer arrived after the call's 403.
C7_ReplayAfterSuccessfulRefresh ==
    \A c \in Calls :
        sends[c] = 2 =>
            /\ promises[awaiting[c]].state = "fulfilled"
            /\ promises[awaiting[c]].resp.net /\ Ok(promises[awaiting[c]].resp)
            /\ okAtReplay[c] > okAt403[c]

C7_Witness ==
    \E c \in Calls : sends[c] = 2 /\ okAt403[c] = 1 /\ okAtReplay[c] = 2

\* the flag, the handle and the request in flight agree
C8_Inv ==
    /\ isRefreshing <=> refreshPromise # Null
    /\ isRefreshing <=> refreshInFlight # {}
    /\ isRefreshing => refreshInFlight = {refreshPromise}

C8_Step ==
    /\ (refreshInFlight' # refreshInFlight /\ refreshInFlight' \subseteq refreshInFlight)
          => (~isRefreshing' /\ refreshPromise' = Null)
    /\ \A c \in Calls :
          (pc[c] = "sent" /\ pc'[c] = "awaitRefresh") =>
             IF isRefreshing
             THEN /\ UNCHANGED refreshVars
                  /\ awaiting'[c] = refreshPromise
             ELSE /\ isRefreshing'
                  /\ refreshPromise' = Len(promises) + 1
                  /\ promises' = Append(promises, [state |-> "pending", resp |-> NoResponse])
                  /\ refreshRequests' = refreshRequests + 1
                  /\ awaiting'[c] = refreshPromise'
    /\ isRefreshing' # isRefreshing =>
          \/ refreshInFlight' # refreshInFlight /\ refreshInFlight' \subseteq refreshInFlight
          \/ \E c \in Calls : pc[c] = "sent" /\ pc'[c] = "awaitRefresh"

\* C8: the coalescing state is Idle (flag false, handle null, no request in
\* flight) or Refreshing (flag true, handle set to the one request in
\* flight); a 403 in Idle starts a refresh and moves it to Refreshing, a 403
\* in Refreshing attaches to the handle, and the response to the refresh,
\* successful or not, moves it back to Idle, so that a later 403 starts a
\* new refresh.
C8_IdleRefreshingIdle == []C8_Inv /\ [][C8_Step]_vars

C8_Witness ==
    /\ Len(promises) = 2
    /\ promises[1].state = "rejected"
    /\ isRefreshing /\ refreshPromise = 2
    /\ \E c \in Calls : pc[c] = "awaitRefresh" /\ awaiting[c] = 2

\* the first send of call c failed otherwise than by a 403
FailedNot403(c) ==
    /\ firstResp[c] # NoResponse
    /\ ~Got403(c)
    /\ ~(firstResp[c].net /\ Ok(firstResp[c]))

\* C9: a call whose first send fails otherwise than by a 403 (another error
\* status, or no response) has sent its request once, has called no
\* refresh, and has ended with an error.
C9_OtherFailuresNotRetried ==
    \A c \in Calls :
        FailedNot403(c) =>
            /\ pc[c] = "done"
            /\ sends[c] = 1
            /\ refreshCalls[c] = 0
            /\ awaiting[c] = Null
            /\ replayResp[c] = NoResponse
            /\ result[c].kind = "error"
            /\ ~redirected[c]

C9_Witness ==
    \E c, d \in Calls :
        /\ firstResp[c].net /\ firstResp[c].status = 500 /\ pc[c] = "done"
        /\ firstResp[d] = TransportFailure /\ pc[d] = "done"
        /\ refreshRequests = 0

\* C10 as stated: the error of a call whose first send was answered by an
\* error status other than 403 carries that status and the message.
C10_ErrorCarriesStatus ==
    \A c \in Calls :
        (FailedNot403(c) /\ firstResp[c].net) =>
            /\ result[c].kind = "error"
            /\ result[c].message = ErrorMessage(firstResp[c])
            /\ result[c].status = firstResp[c].status

\* the response that decided the outcome of call c, once it is done
LastResponse(c) == IF replayResp[c] # NoResponse THEN replayResp[c] ELSE firstResp[c]

\* call c ended on an HTTP response that handleResponse took past its 403
\* branch
EndedPlain(c) ==
    /\ pc[c] = "done"
    /\ LastResponse(c).net
    /\ (Got403(c) => replayResp[c] # NoResponse)

C12_EmptyBodyIsEmptyObject ==
    \A c \in Calls :
        (EndedPlain(c) /\ Ok(LastResponse(c)) /\ LastResponse(c).body = BodyEmpty) =>
            /\ result[c].kind = "ok"
            /\ result[c].data = BodyObject
            /\ result[c].message = ""
            /\ ~redirected[c]

C12_Witness ==
    \E c, d \in Calls :
        /\ EndedPlain(c) /\ replayResp[c] = NoResponse
        /\ Ok(firstResp[c]) /\ firstResp[c].body = BodyEmpty
        /\ result[c] = Success(BodyObject)
        /\ EndedPlain(d) /\ Ok(replayResp[d]) /\ replayResp[d].body = BodyEmpty
        /\ result[d] = Success(BodyObject)

\* C13: a call that ends on a successful response whose body is not empty
\* and is not JSON fails with the invalid-server-response error; the
\* response starts no refresh and no further send.
C13_InvalidBodyIsGenericError ==
    \A c \in Calls :
        (EndedPlain(c) /\ Ok(LastResponse(c)) /\ LastResponse(c).body = BodyText) =>
            /\ result[c].kind = "error"
            /\ result[c].message = "Réponse invalide du serveur"
            /\ ~redirected[c]
            /\ IF replayResp[c] = NoResponse
               THEN sends[c] = 1 /\ refreshCalls[c] = 0 /\ awaiting[c] = Null
               ELSE sends[c] = 2 /\ refreshCalls[c] = 1

C13_Witness ==
    \E c \in Calls :
        /\ EndedPlain(c) /\ replayResp[c] = NoResponse
        /\ firstResp[c].status = 200 /\ firstResp[c].body = BodyText
        /\ result[c] = InvalidResponse /\ sends[c] = 1 /\ refreshRequests = 0

\* ------------------------------------------------- timeline properties
\* the positions of the items of the timeline made for the record
ItemsOf(type, id) ==
    {i \in 1..Len(timelineItems) :
        timelineItems[i].type = type /\ timelineItems[i].id = id}

\* the calendar day a date text names
DayOfText(text) == DayNumber(text.y, text.m, text.d)

\* date(M, d) exists and lies in [s, e], or in [s, infinity) without e
OccursIn(month, rec) ==
    /\ rec.dayOfMonth <= DaysInMonth(month.y, month.m)
    /\ DayOfText(rec.startDate) <= DayNumber(month.y, month.m, rec.dayOfMonth)
    /\ (rec.endDate = Undefined
        \/ DayNumber(month.y, month.m, rec.dayOfMonth) <= DayOfText(rec.endDate))

\* the record has a day of the month
HasDay(rec) == rec.dayOfMonth # NoDay

\* the record's date is a well-formed date text
HasDate(rec) == rec.dateISO.kind = "date"

\* the timeline holds one item for the record when expected, else none
OneItemIff(type, rec, expected) ==
    Cardinality(ItemsOf(type, rec.id)) = IF expected THEN 1 ELSE 0

\* the items of a fixed expense or recurring income are dated date(M, d)
DatedOccurrence(type, rec) ==
    \A k \in ItemsOf(type, rec.id) :
        /\ timelineItems[k].date.valid
        /\ timelineItems[k].date.t =
              DayNumber(selectedMonth.y, selectedMonth.m, rec.dayOfMonth) * HoursPerDay

\* C14: in a timeline the aggregation returned, a fixed expense or recurring
\* income with a day of the month has exactly one item, dated date(M, d),
\* when date(M, d) lies in [s, e] (in [s, infinity) without e), bounds
\* included, and no item otherwise.
C14_RecurringIncludedIffInRange ==
    ~renderThrown =>
        /\ \A i \in 1..Len(fixedExpenses) :
              HasDay(fixedExpenses[i]) =>
                  /\ OneItemIff("fixed-expense", fixedExpenses[i],
                                OccursIn(selectedMonth, fixedExpenses[i]))
                  /\ DatedOccurrence("fixed-expense", fixedExpenses[i])
        /\ \A i \in 1..Len(recurringIncomes) :
              HasDay(recurringIncomes[i]) =>
                  /\ OneItemIff("recurring-income", recurringIncomes[i],
                                OccursIn(selectedMonth, recurringIncomes[i]))
                  /\ DatedOccurrence("recurring-income", recurringIncomes[i])

C14_Witness ==
    /\ ~renderThrown
    /\ selectedMonth = MonthText(2025, 3)
    /\ Len(fixedExpenses) = 2
    /\ fixedExpenses[1].dayOfMonth = 10 /\ fixedExpenses[1].startDate = Mar10
    /\ fixedExpenses[1].endDate = Mar10
    /\ fixedExpenses[2].dayOfMonth = 31 /\ fixedExpenses[2].endDate = Mar10
    /\ Cardinality(ItemsOf("fixed-expense", 1)) = 1
    /\ ItemsOf("fixed-expense", 2) = {}

\* C15: in a timeline the aggregation returned, an expense or income that
\* carries a date text has one item when the year and month of its date are
\* the selected month, and no item otherwise.
C15_OneOffIncludedIffSameMonth ==
    ~renderThrown =>
        /\ \A i \in 1..Len(expenses) :
              expenses[i].dateISO # Undefined =>
                  OneItemIff("variable-expense", expenses[i],
                             /\ HasDate(expenses[i])
                             /\ expenses[i].dateISO.y = selectedMonth.y
                             /\ expenses[i].dateISO.m = selectedMonth.m)
        /\ \A i \in 1..Len(incomes) :
              incomes[i].dateISO # Undefined =>
                  OneItemIff("other-income", incomes[i],
                             /\ HasDate(incomes[i])
                             /\ incomes[i].dateISO.y = selectedMonth.y
                             /\ incomes[i].dateISO.m = selectedMonth.m)

C15_Witness ==
    /\ ~renderThrown
    /\ selectedMonth = MonthText(2025, 3)
    /\ Len(expenses) = 2
    /\ expenses[1].dateISO = Feb10 /\ expenses[2].dateISO = Mar10
    /\ ItemsOf("variable-expense", 1) = {}
    /\ Cardinality(ItemsOf("variable-expense", 2)) = 1

\* C16: the items of the timeline are in non-decreasing order of date,
\* whatever the four collections and the selected month are.
C16_SortedByDate ==
    \A i, j \in 1..Len(timelineItems) :
        i < j => /\ timelineItems[i].date.valid
                 /\ timelineItems[j].date.valid
                 /\ timelineItems[i].date.t <= timelineItems[j].date.t

C16_Witness ==
    /\ Len(timelineItems) = 2
    /\ timelineItems[1].type = "variable-expense"
    /\ timelineItems[2].type = "fixed-expense"
    /\ timelineItems[1].date.t < timelineItems[2].date.t

\* C17: the filtered list holds exactly the items of the timeline whose type
\* is the selected type, in the order of the timeline; under 'all' it is the
\* timeline.
C17_FilterKeepsTypeAndOrder ==
    /\ filterType = "all" => filteredItems = timelineItems
    /\ filterType # "all" =>
          filteredItems = SelectSeq(timelineItems, LAMBDA item : item.type = filterType)

C17_Witness ==
    /\ filterType = "fixed-expense"
    /\ Len(timelineItems) = 2
    /\ timelineItems[1].type = "variable-expense"
    /\ filteredItems = <<timelineItems[2]>>

\* the first hour of the month and of the month behind it
MonthOpens(month) == DayNumber(month.y, month.m, 1) * HoursPerDay

MonthCloses(month) ==
    (DayNumber(month.y, month.m, 1) + DaysInMonth(month.y, month.m)) * HoursPerDay

\* C18: every item of the timeline is dated inside the selected month, and a
\* fixed expense or recurring income whose day of the month is beyond the
\* month's last day has no item: it is not moved to the last day and not
\* carried into the next month.
C18_ItemsInsideMonth ==
    /\ \A k \in 1..Len(timelineItems) :
          /\ timelineItems[k].date.valid
          /\ MonthOpens(selectedMonth) <= timelineItems[k].date.t
          /\ timelineItems[k].date.t < MonthCloses(selectedMonth)
    /\ \A i \in 1..Len(fixedExpenses) :
          fixedExpenses[i].dayOfMonth > DaysInMonth(selectedMonth.y, selectedMonth.m)
              => ItemsOf("fixed-expense", fixedExpenses[i].id) = {}
    /\ \A i \in 1..Len(recurringIncomes) :
          recurringIncomes[i].dayOfMonth > DaysInMonth(selectedMonth.y, selectedMonth.m)
              => ItemsOf("recurring-income", recurringIncomes[i].id) = {}

C18_Witness ==
    /\ ~renderThrown
    /\ selectedMonth = MonthText(2025, 2)
    /\ Len(fixedExpenses) = 2
    /\ fixedExpenses[1].dayOfMonth = 31 /\ fixedExpenses[1].startDate = Feb10
    /\ fixedExpenses[1].endDate = Undefined
    /\ fixedExpenses[2].dayOfMonth = 10 /\ fixedExpenses[2].startDate = Feb10
    /\ Len(timelineItems) = 1
    /\ timelineItems[1].id = 2

\* the items of the groups, one group behind the other
RECURSIVE Ungroup(_)
Ungroup(groups) ==
    IF groups = <<>> THEN <<>> ELSE Head(groups).items \o Ungroup(Tail(groups))

\* C19: the groups in the order they are shown, put one behind the other,
\* are the filtered list; a group holds items of its one date only, and no
\* two groups have the same date.
C19_GroupingKeepsOrder ==
    /\ Ungroup(groupedItems) = filteredItems
    /\ \A g \in 1..Len(groupedItems) :
          /\ groupedItems[g].items # <<>>
          /\ \A k \in 1..Len(groupedItems[g].items) :
                FormatDate(groupedItems[g].items[k].date) = groupedItems[g].key
    /\ \A g, h \in 1..Len(groupedItems) :
          groupedItems[g].key = groupedItems[h].key => g = h

C19_Witness ==
    /\ Len(groupedItems) = 1
    /\ Len(groupedItems[1].items) = 2
    /\ groupedItems[1].items[1].type # groupedItems[1].items[2].type

\* the records that have a day of the month
RECURSIVE WithDay(_)
WithDay(recs) ==
    IF recs = <<>> THEN <<>>
    ELSE IF HasDay(Head(recs)) THEN <<Head(recs)>> \o WithDay(Tail(recs))
         ELSE WithDay(Tail(recs))

\* the records whose date is a well-formed date text
RECURSIVE WithDate(_)
WithDate(recs) ==
    IF recs = <<>> THEN <<>>
    ELSE IF HasDate(Head(recs)) THEN <<Head(recs)>> \o WithDate(Tail(recs))
         ELSE WithDate(Tail(recs))

\* C20 as stated: the aggregation does not abort, and the timeline is the
\* timeline of the collections without the records whose date is malformed
\* or missing and without the records that have no day of the month.
C20_BadRecordsSkipped ==
    /\ ~renderThrown
    /\ timelineItems =
          GenerateTimelineItems(selectedMonth, WithDay(fixedExpenses),
                                WithDay(recurringIncomes), WithDate(expenses),
                                WithDate(incomes), clock).items

\* the place of a source in the concatenation of generateTimelineItems
SourceRank(type) ==
    CASE type = "fixed-expense"    -> 1
      [] type = "recurring-income" -> 2
      [] type = "variable-expense" -> 3
      [] OTHER                     -> 4

\* the collection the items of a type are made from
SourceOf(type) ==
    CASE type = "fixed-expense"    -> fixedExpenses
      [] type = "recurring-income" -> recurringIncomes
      [] type = "variable-expense" -> expenses
      [] OTHER                     -> incomes

\* the position of the record of an item in its source collection
PlaceInSource(item) ==
    CHOOSE i \in 1..Len(SourceOf(item.type)) : SourceOf(item.type)[i].id = item.id

\* C27: of two items of the timeline on the same date, the one whose source
\* comes first in the concatenation (fixed expenses, recurring incomes,
\* variable expenses, other incomes) is first, and two items of one source
\* are in the order of their records in the source collection.
C27_TiesKeepInsertionOrder ==
    \A i, j \in 1..Len(timelineItems) :
        (i < j /\ timelineItems[i].date.t = timelineItems[j].date.t) =>
            \/ SourceRank(timelineItems[i].type) < SourceRank(timelineItems[j].type)
            \/ /\ timelineItems[i].type = timelineItems[j].type
               /\ PlaceInSource(timelineItems[i]) < PlaceInSource(timelineItems[j])

C27_Witness ==
    /\ Len(timelineItems) = 2
    /\ timelineItems[1].date.t = timelineItems[2].date.t
    /\ timelineItems[1].type = "recurring-income"
    /\ timelineItems[2].type = "other-income"

\* ------------------------------------------------- forecast properties
\* the sum of amountCts over the planned extras at the positions of S
RECURSIVE AmountsAt(_)
AmountsAt(S) ==
    IF S = {} THEN 0
    ELSE LET i == CHOOSE j \in S : TRUE
         IN  plannedExtras[i].amountCts + AmountsAt(S \ {i})

\* the positions of the planned extras of a type
ExtrasOfType(type) == {i \in 1..Len(plannedExtras) : plannedExtras[i].type = type}

\* C21: with a baseline loaded, the projected balance shown is
\* baseline.projectedBalanceCts plus the amounts of the planned incomes minus
\* the amounts of the planned expenses.
C21_BalanceIsBaselinePlusExtras ==
    forecastData.set =>
        projectedBalanceCts =
            forecastData.projectedBalanceCts
            + AmountsAt(ExtrasOfType("income")) - AmountsAt(ExtrasOfType("expense"))

C21_Witness ==
    /\ forecastData.set
    /\ forecastData.projectedBalanceCts = 460000
    /\ Len(plannedExtras) = 2
    /\ AmountsAt(ExtrasOfType("income")) = 50000
    /\ AmountsAt(ExtrasOfType("expense")) = 12050
    /\ projectedBalanceCts = 497950

\* C22 as stated: after a planned extra was added while no request was in
\* flight and that extra was removed, with no change of month in between,
\* the three figures shown are those shown before the addition and the list
\* is the list before the addition.
C22_AddThenRemoveRestores ==
    undo.phase = "removed" =>
        /\ projectedBalanceCts = undo.projectedBalanceCts
        /\ expectedIncomesCts = undo.expectedIncomesCts
        /\ expectedExpensesCts = undo.expectedExpensesCts
        /\ plannedExtras = undo.others

\* C23 as stated: every forecast request was caused by the mount of the page
\* or by a change of month, none by the addition or removal of a planned
\* extra, and no request carries a planned extra.
C23_OverlayStaysLocal ==
    \A q \in 1..Len(forecastRequests) :
        /\ forecastRequests[q].cause \in {"mount", "month"}
        /\ forecastRequests[q].plannedExtras = <<>>

Called == Len(storeCalls') = Len(storeCalls) + 1

NewCall == storeCalls'[Len(storeCalls')]

\* a skipped load sent no request: no answer ever settles it
C24_Inv ==
    \A q \in 1..Len(storeCalls) :
        storeCalls[q].state \in {"skipped", "failed"} => storeCalls[q].op = "load"

\* a load that fails raises the flag; a load called under the flag returns
\* at once and changes nothing; only setApiFailure(false) lowers the flag
C24_Step ==
    /\ \A q \in 1..Len(storeCalls) :
          /\ (storeCalls[q].state = "pending" /\ storeCalls'[q].state = "failed")
                => apiFailure'
          /\ storeCalls[q].state = "skipped" => storeCalls'[q].state = "skipped"
    /\ (Called /\ NewCall.op = "load" /\ apiFailure) =>
          /\ NewCall.state = "skipped"
          /\ UNCHANGED <<storeCollections, storeLoading, storeError, apiFailure>>
    /\ (Called /\ NewCall.op = "load" /\ ~apiFailure) => NewCall.state = "pending"
    /\ (apiFailure /\ ~apiFailure') =>
          UNCHANGED <<storeCollections, storeLoading, storeError, storeCalls>>

\* C24: once a load has failed and raised apiFailure, every load called
\* while the flag is up returns without a request and leaves collections,
\* loading and error as they are; the flag stays up until setApiFailure(false),
\* after which loads send requests again.
C24_FailureShortCircuitsLoads == []C24_Inv /\ [][C24_Step]_vars

C24_Witness ==
    /\ Len(storeCalls) = 3
    /\ storeCalls[1].kind = "summary" /\ storeCalls[1].state = "failed"
    /\ storeCalls[2].kind = "expenses" /\ storeCalls[2].state = "skipped"
    /\ storeCalls[3].kind = "expenses" /\ storeCalls[3].state = "fulfilled"
    /\ ~apiFailure
    /\ storeCollections["expenses"] # <<>>

\* C25 as stated: every record of a collection has an id, and it is the _id
\* of the record on the backend.
C25_IdIsServerId ==
    \A kind \in Kinds :
        \A i \in 1..Len(storeCollections[kind]) :
            /\ storeCollections[kind][i].id # NoId
            /\ storeCollections[kind][i].id = storeCollections[kind][i].of

\* the mutations that succeeded on a collection that dispatches the event
SucceededMutations ==
    {q \in 1..Len(storeCalls) :
        /\ storeCalls[q].op \in {"add", "update", "delete"}
        /\ storeCalls[q].state = "fulfilled"
        /\ storeCalls[q].kind \in EventKinds}

C30_Inv ==
    /\ budgetEvents = Cardinality(SucceededMutations)
    /\ \A q \in 1..Len(storeCalls) :
          storeCalls[q].state = "rejected" => storeCalls[q].op \in {"add", "update", "delete"}

C30_Step ==
    \A q \in 1..Len(storeCalls) :
        (/\ storeCalls[q].op \in {"add", "update", "delete"}
         /\ storeCalls[q].state = "pending"
         /\ storeCalls'[q].state \notin {"pending", "fulfilled"}) =>
            /\ storeCalls'[q].state = "rejected"
            /\ storeCollections' = storeCollections
            /\ storeError' = FailureMessage
            /\ storeLoading' = FALSE
            /\ budgetEvents' = budgetEvents

\* C30: an add, update or delete that fails leaves the collections as they
\* were, sets error to the message, sets loading to false, rejects to its
\* caller and dispatches no budgetDataChanged; the events dispatched are as
\* many as the mutations of expenses, incomes, fixed expenses and recurring
\* incomes that succeeded.
C30_FailedMutationChangesNothing == []C30_Inv /\ [][C30_Step]_vars

C30_Witness ==
    /\ Len(storeCalls) = 3
    /\ storeCalls[1].op = "add" /\ storeCalls[1].kind = "expenses"
    /\ storeCalls[1].state = "fulfilled"
    /\ storeCalls[2].op = "update" /\ storeCalls[2].kind = "expenses"
    /\ storeCalls[2].state = "rejected"
    /\ storeCalls[3].op = "add" /\ storeCalls[3].kind = "categories"
    /\ storeCalls[3].state = "fulfilled"
    /\ budgetEvents = 1
    /\ storeError = FailureMessage
    /\ Len(storeCollections["expenses"]) = 1

\* the last call of loadExpenses or loadIncomes
LastLoad(kind) ==
    CHOOSE q \in 1..Len(storeCalls) :
        /\ storeCalls[q].kind = kind
        /\ \A r \in 1..Len(storeCalls) : storeCalls[r].kind = kind => r <= q

\* every load was answered, and none failed
AllLoaded == \A q \in 1..Len(storeCalls) : storeCalls[q].state = "fulfilled"

FormCalls ==
    {q \in 1..Len(storeCalls) :
        storeCalls[q].kind \in FormKinds /\ storeCalls[q].op \in {"add", "update"}}

C26_Inv ==
    \A q \in FormCalls :
        LET data == storeCalls[q].data
        IN  /\ data.dayOfMonth \in 1..31
            /\ (data.endDate = Undefined \/ ~StringLess(data.endDate, data.startDate))

C26_Step ==
    (formSubmitted'.n # formSubmitted.n /\ EndBeforeStart(formSubmitted'.form)) =>
        /\ storeCalls' = storeCalls
        /\ storeCollections' = storeCollections

\* C26: a fixed expense or recurring income handed to add or update by the
\* forms has dayOfMonth in 1..31 and, when it has an endDate, endDate >=
\* startDate; a submission with endDate before startDate makes no call and
\* leaves the collections as they were.
C26_FormsValidate == []C26_Inv /\ [][C26_Step]_vars

\* a submission with the end date before the start date was turned away after
\* an update with an end date had gone through
C26_Witness ==
    /\ formSubmitted.n = 2
    /\ EndBeforeStart(formSubmitted.form)
    /\ Len(storeCalls) = 2
    /\ storeCalls[2].op = "update"
    /\ storeCalls[2].state = "fulfilled"
    /\ storeCalls[2].data.endDate = Mar10

====
